---- MODULE Spec2Model ----
(***************************************************************************)
(* Model of main.py: assembly of the JB2006 solar / geomagnetic index      *)
(* table from the historical feeds (SOLFSMY.TXT, SOLRESAP.TXT) and the     *)
(* recent proxy feeds (CELESTRAK.TXT, MGII.TXT).                           *)
(*                                                                         *)
(* Representation.                                                         *)
(*  - A datetime at midnight is its Modified Julian Day number (integer);  *)
(*    timedelta(days=n) is the integer n.  datetime.today() carries a time *)
(*    of day, so for a midnight date d:  d <= today - n  <=>  d <= now - n *)
(*    and d > today - n <=> d > now - n, with now the day number of today. *)
(*  - Decimal strings ('72.4') are integers in tenths (724).               *)
(*  - The MG2 proxy is an integer in thousandths.                          *)
(*  - A text line is the tuple of its whitespace-separated tokens; Python  *)
(*    token j is element j+1.  '' (end of file) is the empty tuple.        *)
(*  - array is the list of the eight result lists; Python array[j] is      *)
(*    array[j+1]:  1 mjd, 2 F10, 3 F10B, 4 S10, 5 S10B, 6 XM10, 7 XM10B,   *)
(*    8 AP octets.                                                         *)
(***************************************************************************)
EXTENDS Integers, Sequences, FiniteSets, TLC

(* ------------------------------ bounds --------------------------------- *)

\* latest "today" explored, in days after the feed epoch
MaxDay == 135
\* number of different "today" values explored
NowSpread == 1
\* start dates explored near the epoch: epoch-1 .. epoch+MaxStart
MaxStart == 2
\* end dates explored beyond today: .. today+MaxAhead
MaxAhead == 1

(* ------------------------- program constants --------------------------- *)

\* header lines skipped in both historical files
HeaderLines == 4
\* further lines skipped in SOLRESAP.TXT
ExtraApLines == 23
\* header lines skipped in CELESTRAK.TXT
CelestrakHeader == 17
\* publication latency of the historical feeds, in days
Latency == 45
\* lower end of range(-81, -1)
WindowLow == 81
\* year of the first data row of SOLFSMY.TXT
BirthYear == 1997

(* ------------------------- calendar arithmetic ------------------------- *)

\* datetime(Y, M, D) / strptime('%Y %m %d') as a Modified Julian Day number
Ordinal(Y, M, D) ==
    LET a == IF M <= 2 THEN 1 ELSE 0
        y == Y + 4800 - a
        m == M + 12 * a - 3
        jdn == D + ((153 * m + 2) \div 5) + 365 * y + (y \div 4)
               - (y \div 100) + (y \div 400) - 32045
    IN  jdn - 2400001

\* the calendar triple <<Y, M, D>> of a day number (how the feeds print dates)
Calendar(mjd) ==
    LET a == mjd + 2400001 + 32044
        b == (4 * a + 3) \div 146097
        c == a - ((146097 * b) \div 4)
        d == (4 * c + 3) \div 1461
        e == c - ((1461 * d) \div 4)
        m == (5 * e + 2) \div 153
    IN  << 100 * b + d - 4800 + (m \div 10),
           m + 3 - 12 * (m \div 10),
           e - ((153 * m + 2) \div 5) + 1 >>

\* convert_calendar_to_mjd: 'Y.M.D' -> str(jd1 + jd2 - 2400000.5), in tenths
convert_calendar_to_mjd(line) ==
    10 * Ordinal(line[1], line[2], line[3])

(* ------------------------------ rounding ------------------------------- *)

\* the one element of a singleton set: Only({ F(v) : v \in {e} }) is F(e)
\* with e evaluated once
Only(S) == CHOOSE v \in S : TRUE

\* the least element of a non-empty set of integers
Least(S) == CHOOSE x \in S : \A y \in S : x <= y

\* round(n + r / c) for 0 <= r < c, ties to the even integer (Python's round)
RoundParts(n, r, c) ==
    IF 2 * r < c THEN n
    ELSE IF 2 * r > c THEN n + 1
    ELSE IF n % 2 = 0 THEN n ELSE n + 1

\* round(n / d) for d > 0
RoundDiv(n, d) == RoundParts(n \div d, n % d, d)

\* <<(a * b) \div c, (a * b) % c>> for a >= 0, 0 <= b < 10^8, c > 0, by
\* Horner's rule on the decimal digits of b, so that no intermediate exceeds
\* 32 bits
MulDivMod(a, b, c) ==
    LET digit(k) == (b \div (10 ^ (8 - k))) % 10
        r[k \in 0..8] ==
            IF k = 0 THEN 0 ELSE (10 * r[k - 1] + a * digit(k)) % c
        q[k \in 0..8] ==
            IF k = 0 THEN 0
            ELSE 10 * q[k - 1] + ((10 * r[k - 1] + a * digit(k)) \div c)
    IN  << q[8], r[8] >>

(* --------------------------- index conversion -------------------------- *)

\* convert_MG2_to_M10: M10 = -1943.85 + 7606.56 * mgii, '0' when M10 <= 0
\* (760656 * mgii - 194385000 is M10 * 10^5)
convert_MG2_to_M10(mgii) ==
    IF 760656 * mgii - 194385000 > 0
    THEN RoundDiv(760656 * mgii - 194385000, 10000)
    ELSE 0

\* str(round(S10, 1)) if S10 > 0 else '0', for 10 * S10 = n + r / c
S10String(n, r, c) ==
    IF n > 0 \/ (n = 0 /\ r > 0) THEN RoundParts(n, r, c) ELSE 0

\* convert_MG2_to_S10: EUV = 110.324 * mgii - 28.065,
\* S10 = -12.01 + 141.23 * (EUV / 1.9955), '0' when S10 <= 0.
\* With E = EUV * 10^6 / 4 = 27581 * mgii - 7016250 and c = 4988750:
\* 10 * S10 = 14123 * E / c - 120.1 = (p[1] - 121) + (p[2] + 0.9 * c) / c
convert_MG2_to_S10(mgii) ==
    IF 27581 * mgii - 7016250 <= 0 THEN 0
    ELSE Only({ S10String(p[1] - 121 + ((p[2] + 4489875) \div 4988750),
                          (p[2] + 4489875) % 4988750, 4988750) :
                p \in { MulDivMod(14123, 27581 * mgii - 7016250, 4988750) } })

(* ------------------------------ the feeds ------------------------------ *)

\* datetime(year of the first SOLFSMY data row, 1, 1)
Epoch == Ordinal(BirthYear, 1, 1)

\* the anchor '1996 01 01' the stitcher starts its scans from
Anchor == Ordinal(1996, 1, 1)

\* data row of SOLFSMY.TXT for the day k days after the epoch:
\* YYYY DDD JulianDay F10 F81c S10 S81c M10 M81c
SolfsmyRow(k) ==
    << BirthYear, k + 1, 10 * (Epoch + k) + 24000005,
       10 * (k + 1), 800 + k,
       900 + 13 * (k % 7) + k, 950 + k,
       1000 + 11 * (k % 5) + 2 * k, 1050 + k >>

\* data row of SOLRESAP.TXT for the day k days after the epoch:
\* three leading fields, then the eight 3-hourly ap values
SolresapRow(k) ==
    << BirthYear, k + 1, 0 >> \o [j \in 1..8 |-> (k + j) % 40]

\* SOLFSMY_file.readline() at line p (0-based); last is the number of the
\* last day that has a data row
SOLFSMY_readline(p, last) ==
    IF p >= HeaderLines /\ p - HeaderLines <= last
    THEN SolfsmyRow(p - HeaderLines) ELSE << >>

\* SOLRESAP_file.readline() at line p (0-based): the row of the day k sits
\* HeaderLines + ExtraApLines + k lines into the file
SOLRESAP_readline(p, last) ==
    IF p >= HeaderLines + ExtraApLines /\ p - HeaderLines - ExtraApLines <= last
    THEN SolresapRow(p - HeaderLines - ExtraApLines) ELSE << >>

\* first day that has a row in CELESTRAK.TXT and MGII.TXT
ProxyFirst == Epoch + 1

\* the MG2 proxy of a day, in thousandths
MG2Of(day) == 250 + 2 * ((day - Epoch) % 10)

\* row of CELESTRAK.TXT for a day: 'YYYY MM DD' first, tokens 14..21 the ap
\* values, token 26 F10.7, token 28 its 81-day average (Python numbering)
CelestrakRow(day) ==
    LET k == day - Epoch
    IN  [j \in 1..29 |->
            IF j <= 3 THEN Calendar(day)[j]
            ELSE IF j \in 15..22 THEN (k + j - 14) % 40
            ELSE IF j = 27 THEN 10 * (k + 1) + 3
            ELSE IF j = 29 THEN 800 + k + 3
            ELSE 0]

\* row of MGII.TXT for a day: the date fields, last token the MG2 value
MgiiRow(day) == Calendar(day) \o << MG2Of(day) >>

\* celestrak.readline() at line p (0-based); last is the last day with a row
celestrak_readline(p, last) ==
    IF p >= CelestrakHeader /\ ProxyFirst + (p - CelestrakHeader) <= last
    THEN CelestrakRow(ProxyFirst + (p - CelestrakHeader)) ELSE << >>

\* mgii.readline() at line p (0-based)
mgii_readline(p, last) ==
    IF p >= 0 /\ ProxyFirst + p <= last THEN MgiiRow(ProxyFirst + p) ELSE << >>

(* ------------------------------ the table ------------------------------ *)

EmptyArray == [j \in 1..8 |-> << >>]

NoError == [kind |-> "none", where |-> "none"]

Raise(kind, where) == [kind |-> kind, where |-> where]

(* ----------------------- rolling weighted average ---------------------- *)

\* Sum over i in range(from, -1) of weight * float(column[i]), in 1/160:
\* weight = 1 + (0.5 * (i + 1)) / 80 = (161 + i) / 160; column[i] with i < 0
\* is element Len(column) + 1 + i
WeightedSum(column, from) ==
    LET sum[i \in from..(-1)] ==
            IF i >= -1 THEN 0
            ELSE (161 + i) * column[Len(column) + 1 + i] + sum[i + 1]
    IN  sum[from]

\* the same sum of the weights alone
SumWeights(from) ==
    LET sum_weights[i \in from..(-1)] ==
            IF i >= -1 THEN 0 ELSE (161 + i) + sum_weights[i + 1]
    IN  sum_weights[from]

\* a rolling average that never raises: it averages what the list holds
\* when that is less than the window
RollingAverageShort(column) ==
    IF Len(column) < 2 THEN [raised |-> FALSE, value |-> 0]
    ELSE IF Len(column) < WindowLow
    THEN [raised |-> FALSE,
          value |-> RoundDiv(WeightedSum(column, -Len(column)),
                             SumWeights(-Len(column)))]
    ELSE [raised |-> FALSE,
          value |-> RoundDiv(WeightedSum(column, -WindowLow),
                             SumWeights(-WindowLow))]

\* the body of make_S10B / make_XM10B on the list it reads: the first
\* subscript of the loop, [-81], raises IndexError when the list holds fewer
\* than 81 entries; else str(round(sum / sum_weights, 1))
RollingAverage(column) ==
    IF Len(column) < WindowLow
    THEN [raised |-> TRUE, value |-> 0]
    ELSE [raised |-> FALSE,
          value |-> RoundDiv(WeightedSum(column, -WindowLow),
                             SumWeights(-WindowLow))]

make_S10B(arr) == RollingAverage(arr[4])

make_XM10B(arr) == RollingAverage(arr[6])

(* ------------------------ historical-regime reader --------------------- *)

\* create_data_for_res_file(...).split(','): mjd, ap1..ap8, F10, F81, S10,
\* S10B, XM10, XM10B
create_data_for_res_file(flux, magnitude) ==
    << flux[3] - 24000005 >> \o [j \in 1..8 |-> magnitude[j + 3]]
        \o [j \in 1..6 |-> flux[j + 3]]

\* what one pass of the reader's loop appends to the eight lists, from
\* tmp_str: [0], [9], [10], [11], [12], [13], [14], and [1..8] as a list
ReaderRecord(tmp_str) ==
    << tmp_str[1], tmp_str[10], tmp_str[11], tmp_str[12], tmp_str[13],
       tmp_str[14], tmp_str[15], [j \in 1..8 |-> tmp_str[j + 1]] >>

\* the checks with the second one made strict the wrong way round
ReaderValidateStrict(start, end, birth, today) ==
    IF start < birth \/ end > today - 1 THEN "OutOfRange"
    ELSE IF start >= end THEN "Inverted"
    ELSE "none"

\* the two checks of the reader: the kind of exception raised, or "none"
ReaderValidate(start, end, birth, today) ==
    IF start < birth \/ end > today - 1 THEN "OutOfRange"
    ELSE IF start > end THEN "Inverted"
    ELSE "none"

\* the lines both files are advanced by before the loop:
\* range(start_date_delta - 1) is empty when start_date_delta <= 1
ReaderSkip(start_date_delta) ==
    IF start_date_delta - 1 > 0 THEN start_date_delta - 1 ELSE 0

\* the passes of for i in range(0, n) that end before the first exception:
\* pass i reads the lines fpos + i and apos + i, and an empty line makes
\* create_data_for_res_file raise IndexError before anything is appended
ReaderPasses(n, fpos, apos, last) ==
    Only({ IF bad = {} THEN (IF n < 0 THEN 0 ELSE n) ELSE Least(bad) :
           bad \in { { i \in 0..(n - 1) :
                         Len(SOLFSMY_readline(fpos + i, last)) = 0
                         \/ Len(SOLRESAP_readline(apos + i, last)) = 0 } } })

\* the loop for i in range(0, end_date_delta) from the lines fpos and apos:
\* the lists after the m passes that complete, and the exception if m < n
ReaderLoop(m, n, fpos, apos, last) ==
    Only({ [array |-> [j \in 1..8 |-> [i \in 1..m |-> records[i][j]]],
            error |-> IF m < n THEN Raise("IndexError", "reader") ELSE NoError] :
           records \in { << >> \o [i \in 1..m |->
               ReaderRecord(create_data_for_res_file(
                   SOLFSMY_readline(fpos + i - 1, last),
                   SOLRESAP_readline(apos + i - 1, last)))] } })

\* make_indices_array_before_45_days(start, end): the table it leaves, the
\* exception it raises and whether it printed the missing-file message.
\* The first data row (line HeaderLines) gives index_birth_date; the loop
\* starts 1 + skip lines after it in SOLFSMY.TXT and skip + 1 lines after
\* the ExtraApLines in SOLRESAP.TXT.
make_indices_array_before_45_days(start, end, today, present, last) ==
    IF ~present
    THEN [array |-> EmptyArray, error |-> NoError, printed |-> TRUE]
    ELSE Only({
        IF ReaderValidate(start, end, index_birth_date, today) # "none"
        THEN [array |-> EmptyArray, printed |-> FALSE,
              error |-> Raise(ReaderValidate(start, end, index_birth_date, today),
                              "reader")]
        ELSE Only({ [array |-> loop.array, error |-> loop.error,
                     printed |-> FALSE] :
                    loop \in { ReaderLoop(
                        ReaderPasses(end - start,
                            HeaderLines + 1 + ReaderSkip(start - index_birth_date),
                            HeaderLines + ExtraApLines
                                + ReaderSkip(start - index_birth_date) + 1, last),
                        end - start,
                        HeaderLines + 1 + ReaderSkip(start - index_birth_date),
                        HeaderLines + ExtraApLines
                            + ReaderSkip(start - index_birth_date) + 1,
                        last) } }) :
        index_birth_date \in
            { Ordinal(SOLFSMY_readline(HeaderLines, last)[1], 1, 1) } })

(* -------------------------- recent-regime stitcher --------------------- *)

\* strptime(line[0:10], '%Y %m %d') of a feed line
LineDate(line) == Ordinal(line[1], line[2], line[3])

\* while strptime(current_date_line_celestrak) != start_date: readline().
\* The line number of the first row from line p on that carries start_date,
\* or -1 when the scan runs off the end of the file (strptime('') raises
\* ValueError)
CelestrakSeek(p, start, last) ==
    Only({ IF hits = {} THEN -1 ELSE Least(hits) :
           hits \in { { q \in p..(CelestrakHeader + (last - ProxyFirst)) :
                          LineDate(celestrak_readline(q, last)) = start } } })

\* the same scan of MGII.TXT
MgiiSeek(p, start, last) ==
    Only({ IF hits = {} THEN -1 ELSE Least(hits) :
           hits \in { { q \in p..(last - ProxyFirst) :
                          LineDate(mgii_readline(q, last)) = start } } })

\* the date whose MJD one pass of the loop appends: the code converts
\* current_date_line_celestrak, which only the seek loop assigns
StitchDateLine(current_date_line_celestrak, current_celestrak_line) ==
    current_date_line_celestrak

\* what ends the loop on the lines cpos and mpos, or "go" when the pass
\* runs: strptime('') raises ValueError, the date of end_date ends the loop,
\* ''.split()[-1] raises IndexError
StitchHead(cpos, mpos, end, last) ==
    IF Len(celestrak_readline(cpos, last)) = 0 THEN "ValueError"
    ELSE IF LineDate(celestrak_readline(cpos, last)) = end THEN "none"
    ELSE IF Len(mgii_readline(mpos, last)) = 0 THEN "IndexError"
    ELSE "go"

\* the number of passes of the while loop before its head ends it
StitchPasses(cpos, mpos, end, last) ==
    Least({ i \in 0..(CelestrakHeader + (last - ProxyFirst) + 1 - cpos) :
              StitchHead(cpos + i, mpos + i, end, last) # "go" })

\* the lists as k passes from the lines cpos and mpos extend them, the two
\* averaged lists (array[4], array[6]) left as they are
StitchValues(arr, date_line, cpos, mpos, k, last) ==
    << arr[1] \o [i \in 1..k |-> convert_calendar_to_mjd(
                    StitchDateLine(date_line,
                                   celestrak_readline(cpos + i - 1, last)))],
       arr[2] \o [i \in 1..k |-> celestrak_readline(cpos + i - 1, last)[27]],
       arr[3] \o [i \in 1..k |-> celestrak_readline(cpos + i - 1, last)[29]],
       arr[4] \o [i \in 1..k |-> convert_MG2_to_S10(
                    mgii_readline(mpos + i - 1, last)[4])],
       arr[5],
       arr[6] \o [i \in 1..k |-> convert_MG2_to_M10(
                    mgii_readline(mpos + i - 1, last)[4])],
       arr[7],
       arr[8] \o [i \in 1..k |->
                    [j \in 1..8 |-> celestrak_readline(cpos + i - 1, last)[j + 14]]] >>

\* the table as make_S10B (make_XM10B) of pass i reads it: array[3] and
\* array[5] hold the entries of the passes up to i
StitchView(arr, full, i) ==
    [full EXCEPT ![4] = SubSeq(@, 1, Len(arr[4]) + i),
                 ![6] = SubSeq(@, 1, Len(arr[6]) + i)]

\* the results of make_S10B and make_XM10B in each of k passes
StitchAverages(arr, full, k) ==
    << >> \o [i \in 1..k |->
                [S10B |-> make_S10B(StitchView(arr, full, i)),
                 XM10B |-> make_XM10B(StitchView(arr, full, i))]]

\* the lists after the loop: every pass before the first one in which an
\* average raises is appended whole; of that pass, what precedes the raise
\* (array[0..3], and array[4..5] when it is make_XM10B that raises)
StitchCommit(arr, full, avg, k, head) ==
    Only({ [array |->
              [j \in 1..8 |->
                  SubSeq(IF j = 5 THEN arr[5] \o [i \in 1..k |-> avg[i].S10B.value]
                         ELSE IF j = 7 THEN arr[7] \o [i \in 1..k |-> avg[i].XM10B.value]
                         ELSE full[j],
                         1,
                         Len(arr[j])
                         + (IF fails = {} THEN k
                            ELSE IF j <= 4 THEN Least(fails)
                            ELSE IF j <= 6 /\ ~avg[Least(fails)].S10B.raised
                            THEN Least(fails)
                            ELSE Least(fails) - 1))],
            error |-> IF fails # {} THEN Raise("IndexError", "stitcher")
                      ELSE IF head # "none" THEN Raise(head, "stitcher")
                      ELSE NoError] :
           fails \in { { i \in 1..k : avg[i].S10B.raised \/ avg[i].XM10B.raised } } })

\* while strptime(current_celestrak_line[0:10]) != end_date: ..., from the
\* lines cpos and mpos the scans stopped on, with k the number of passes
\* before the head of the loop ends it
StitchLoop(arr, date_line, cpos, mpos, k, end, last) ==
    Only({ StitchCommit(arr, full, StitchAverages(arr, full, k), k,
                        StitchHead(cpos + k, mpos + k, end, last)) :
           full \in { StitchValues(arr, date_line, cpos, mpos, k, last) } })

\* update_indices_array_after_45_days(array, start, end): the table it
\* leaves, the exception it raises, whether it printed the missing-file
\* message.  start = '1996 01 01' skips both scans and leaves both current
\* lines empty, which the loop's strptime rejects.
update_indices_array_after_45_days(arr, start, end, present, last) ==
    IF ~present
    THEN [array |-> arr, error |-> NoError, printed |-> TRUE]
    ELSE IF \/ start = Anchor
            \/ CelestrakSeek(CelestrakHeader, start, last) < 0
            \/ MgiiSeek(0, start, last) < 0
    THEN [array |-> arr, error |-> Raise("ValueError", "stitcher"),
          printed |-> FALSE]
    ELSE Only({ [array |-> loop.array, error |-> loop.error, printed |-> FALSE] :
                loop \in { Only({
                    StitchLoop(arr, Calendar(start), pos[1], pos[2],
                               StitchPasses(pos[1], pos[2], end, last), end, last) :
                    pos \in { << CelestrakSeek(CelestrakHeader, start, last),
                                 MgiiSeek(0, start, last) >> } }) } })

(* ----------------------------- table emission -------------------------- *)

\* make_str_for_csv(array, idx), idx 0-based: mjd, ap1..ap8, F10, F81, S10,
\* S10B, XM10, XM10B
make_str_for_csv(arr, idx) ==
    << arr[1][idx + 1] >> \o arr[8][idx + 1]
        \o << arr[2][idx + 1], arr[3][idx + 1], arr[4][idx + 1],
              arr[5][idx + 1], arr[6][idx + 1], arr[7][idx + 1] >>

\* whether every subscript of make_str_for_csv(array, idx) is in range
RowExists(arr, idx) == \A j \in 1..8 : idx + 1 <= Len(arr[j])

\* for i in range(0, n): file.write(make_str_for_csv(tmp, i) + '\n'):
\* the rows written before the first IndexError, and that exception
WriteRows(arr, n) ==
    Only({ [rows |-> [i \in 1..(IF missing = {} THEN n ELSE Least(missing)) |->
                         make_str_for_csv(arr, i - 1)],
            error |-> IF missing = {} THEN NoError
                      ELSE Raise("IndexError", "emit")] :
           missing \in { { i \in 0..(n - 1) : ~RowExists(arr, i) } } })

(* ------------------------------- the state ----------------------------- *)

VARIABLES
    now,            \* the day number of datetime.today()
    hist_present,   \* SOLFSMY.TXT and SOLRESAP.TXT exist
    proxy_present,  \* CELESTRAK.TXT and MGII.TXT exist
    hist_last,      \* days after the epoch of the last historical data row
    start_date,     \* the caller's start_date
    end_date,       \* end_date (make_csv_for_JB2006 reassigns it)
    delta,          \* delta of make_csv_for_JB2006
    branch,         \* "none", "historical", "recent", or "direct" for a
                    \* direct call of the reader
    pc,             \* the next step: "make_csv", "reader", "stitcher",
                    \* "emit", or finished: "done", "returned", "raised"
    array,          \* tmp, the table
    error,          \* the exception that ended the call
    printed,        \* the missing-file messages printed
    csv             \* jachnia_lala.csv: <<>> while it does not exist, else
                    \* the header followed by the rows written

vars == << now, hist_present, proxy_present, hist_last, start_date, end_date,
           delta, branch, pc, array, error, printed, csv >>

Header == "mjd,ap1,ap2,ap3,ap4,ap5,ap6,ap7,ap8,F10,F81,S10,S10B,XM10,XM10B"

\* the "today" values explored
Todays == { Epoch + MaxDay - j : j \in 0..(NowSpread - 1) }

\* the start dates explored: around the epoch, and late ones
StartDates(today) ==
    ((Epoch - 1)..(Epoch + MaxStart)) \cup { today - Latency, today - 1 }

\* the end dates explored
EndDates(today) == (Epoch - 1)..(today + MaxAhead)

Init ==
    /\ now \in Todays
    /\ hist_present \in BOOLEAN
    /\ proxy_present \in BOOLEAN
    /\ hist_last \in { now - Epoch - Latency, now - Epoch }
    /\ start_date \in StartDates(now)
    /\ end_date \in EndDates(now)
    /\ delta = 0
    /\ \/ pc = "make_csv" /\ branch = "none"
       \/ pc = "reader" /\ branch = "direct"
    /\ array = EmptyArray
    /\ error = NoError
    /\ printed = << >>
    /\ csv = << >>

\* whether make_csv_for_JB2006 takes its first branch
IsHistorical(end, today) == end <= today - Latency

\* make_csv_for_JB2006, lines 294-296 and 306-307: delta, the choice of the
\* branch, and the shift of end_date in the second branch
make_csv_for_JB2006 ==
    /\ pc = "make_csv"
    /\ delta' = end_date - start_date
    /\ IF IsHistorical(end_date, now)
       THEN branch' = "historical" /\ end_date' = end_date
       ELSE branch' = "recent" /\ end_date' = end_date - Latency
    /\ pc' = "reader"
    /\ UNCHANGED << now, hist_present, proxy_present, hist_last, start_date,
                    array, error, printed, csv >>

\* the call of make_indices_array_before_45_days (lines 297, 308, or direct)
Reader ==
    /\ pc = "reader"
    /\ \E r \in { make_indices_array_before_45_days(start_date, end_date, now,
                                                    hist_present, hist_last) } :
           /\ array' = r.array
           /\ error' = r.error
           /\ printed' = IF r.printed THEN Append(printed, "reader") ELSE printed
           /\ pc' = IF r.error # NoError THEN "raised"
                    ELSE IF branch = "direct" THEN "returned"
                    ELSE IF branch = "recent" THEN "stitcher"
                    ELSE "emit"
    /\ UNCHANGED << now, hist_present, proxy_present, hist_last, start_date,
                    end_date, delta, branch, csv >>

\* the first argument of the call at line 309
StitchStart(end) == end - Latency

\* the call of update_indices_array_after_45_days at line 309
Stitcher ==
    /\ pc = "stitcher"
    /\ \E r \in { update_indices_array_after_45_days(array,
                      StitchStart(end_date), end_date, proxy_present, now) } :
           /\ array' = r.array
           /\ error' = r.error
           /\ printed' = IF r.printed THEN Append(printed, "stitcher") ELSE printed
           /\ pc' = IF r.error # NoError THEN "raised" ELSE "emit"
    /\ UNCHANGED << now, hist_present, proxy_present, hist_last, start_date,
                    end_date, delta, branch, csv >>

\* the with-block that writes jachnia_lala.csv (lines 298-304, 310-316)
Emit ==
    /\ pc = "emit"
    /\ \E w \in { WriteRows(array, delta) } :
           /\ csv' = << Header >> \o w.rows
           /\ error' = w.error
           /\ pc' = IF w.error # NoError THEN "raised" ELSE "done"
    /\ UNCHANGED << now, hist_present, proxy_present, hist_last, start_date,
                    end_date, delta, branch, array, printed >>

Next == make_csv_for_JB2006 \/ Reader \/ Stitcher \/ Emit

Spec == Init /\ [][Next]_vars

(* ------------------------- positions in the run ------------------------ *)

\* make_indices_array_before_45_days has just finished
ReaderFinished ==
    \/ pc = "stitcher"
    \/ pc = "returned"
    \/ pc = "emit" /\ branch = "historical"
    \/ pc = "raised" /\ error.where = "reader"
    \/ pc = "raised" /\ branch = "direct"

\* update_indices_array_after_45_days has just finished
StitcherFinished ==
    \/ pc = "emit" /\ branch = "recent"
    \/ pc = "raised" /\ error.where = "stitcher"

\* make_csv_for_JB2006 has finished
TopLevelFinished ==
    /\ branch \in {"historical", "recent"}
    /\ pc \in {"done", "raised"}

\* the end_date the caller passed to make_csv_for_JB2006
CallerEnd == start_date + delta

\* the caller's range is valid
ValidRange ==
    /\ start_date >= Epoch
    /\ start_date <= CallerEnd
    /\ CallerEnd <= now - 1

\* the records of the table that the reader appended, when it returned
ReaderRows == end_date - start_date

\* the positions of the records the stitcher appended
Stitched == (ReaderRows + 1)..Len(array[1])

\* the day whose feed row the F10 value of record i was copied from (the
\* feeds carry 10 * (day number + 1), plus 3 in CELESTRAK.TXT)
RecordDay(i) == Epoch + (array[2][i] \div 10) - 1

(* -------------------------------- claims ------------------------------- *)

\* C1: for every valid range (start >= epoch, start <= end, end <= now - 1)
\* and complete feeds, make_csv_for_JB2006 emits exactly (end - start).days
\* rows after the header, in the historical and in the recent case alike.
C1_RowCount ==
    (TopLevelFinished /\ hist_present /\ proxy_present /\ ValidRange)
        => (pc = "done" /\ Len(csv) = 1 + delta)

\* C2: in the recent case the reader yields [start, end - 45) and the
\* stitcher the days from end - 45 up to end, so the table holds every day of
\* [start, end) exactly once, in order.  (Stated for start dates after the
\* epoch, where the reader's first record is the row of start_date.)
C2_SplitCoverage ==
    (StitcherFinished /\ error = NoError /\ hist_present /\ proxy_present
            /\ start_date > Epoch)
        => /\ Len(array[2]) = delta
           /\ \A i \in 1..Len(array[2]) : RecordDay(i) = start_date + i - 1

\* C3: for every start >= epoch, offset 0 included, the first record of the
\* reader is the feed row of start_date and record i the row of
\* start_date + i.
C3_Alignment ==
    (ReaderFinished /\ error = NoError /\ hist_present)
        => \A i \in 1..Len(array[2]) :
              /\ array[2][i] = SolfsmyRow(start_date - Epoch + i - 1)[4]
              /\ array[1][i] = 10 * (start_date + i - 1)

\* C4: the reader raises, before it appends any record, when start_date
\* precedes the epoch and when start_date > end_date; when start_date =
\* end_date inside the valid range it raises nothing and returns zero rows.
C4_ReaderValidation ==
    (ReaderFinished /\ hist_present)
        => /\ (start_date < Epoch \/ start_date > end_date)
                => (pc = "raised" /\ error.kind \in {"OutOfRange", "Inverted"}
                    /\ array = EmptyArray)
           /\ (start_date = end_date /\ start_date >= Epoch
                    /\ end_date <= now - 1)
                => (pc # "raised" /\ error = NoError /\ array = EmptyArray)

\* the reader has rejected an inverted range
C4_Witness ==
    /\ ReaderFinished /\ hist_present
    /\ start_date >= Epoch /\ start_date > end_date /\ end_date <= now - 1
    /\ pc = "raised" /\ error = Raise("Inverted", "reader")

\* C5: make_csv_for_JB2006 with end_date equal to "now" fails with the
\* out-of-range error and emits no table.
C5_LatencyAtNow ==
    (TopLevelFinished /\ hist_present /\ CallerEnd = now)
        => (pc = "raised" /\ error.kind = "OutOfRange" /\ csv = << >>)

\* C6: when a historical feed is absent the reader does not return a table
\* as a success: the missing-source error reaches the caller.
C6_MissingSource ==
    ((ReaderFinished \/ TopLevelFinished) /\ ~hist_present)
        => (pc = "raised" /\ error.kind = "FileNotFoundError")

\* the weighted sum of the 81 entries of column that end at position i,
\* weights (160 + k) / 160 for k = 0 (oldest) .. 80 (position i)
Sum81(column, i) ==
    LET sum[k \in 0..81] ==
            IF k > 80 THEN 0
            ELSE (160 + k) * column[i - 80 + k] + sum[k + 1]
    IN  sum[0]

\* the sum of those 81 weights, in 1/160
Weights81 == 81 * 160 + ((80 * 81) \div 2)

\* C7: every S10B / XM10B the stitcher appends is the average of the 81
\* entries ending at the value appended the same day, weights rising from
\* 1.0 on the oldest to 1.5 on the newest.
C7_Window81 ==
    (StitcherFinished /\ error = NoError /\ hist_present /\ proxy_present)
        => \A i \in Stitched :
              /\ array[5][i] = RoundDiv(Sum81(array[4], i), Weights81)
              /\ array[7][i] = RoundDiv(Sum81(array[6], i), Weights81)

\* the stitcher reaches its first make_S10B call: the files exist and both
\* scans find the row of its start date
ReachesAverage ==
    /\ pc = "stitcher" /\ proxy_present
    /\ StitchStart(end_date) \in ProxyFirst..now

\* C8: whenever the S10 (XM10) history holds fewer than 81 entries when
\* make_S10B (make_XM10B) is called, the call raises and the error leaves
\* the stitcher; no average is appended.
C8_FailFast ==
    [][(ReachesAverage /\ Len(array[4]) + 1 < WindowLow)
          => /\ pc' = "raised"
             /\ error' = Raise("IndexError", "stitcher")
             /\ array'[5] = array[5]
             /\ array'[7] = array[7]]_vars

\* the stitcher has raised on a history one entry short of the window
C8_Witness ==
    /\ pc = "raised" /\ error = Raise("IndexError", "stitcher")
    /\ Len(array[4]) = WindowLow - 1
    /\ Len(array[5]) = WindowLow - 2

\* C9: whenever the reader or the stitcher finishes, by returning or by
\* raising, the eight sequences have the same length.  (Stated with all four
\* feeds present, so that the table is the one the reader built.)
C9_EqualLengths ==
    ((ReaderFinished \/ StitcherFinished) /\ hist_present /\ proxy_present)
        => \A j, k \in 1..8 : Len(array[j]) = Len(array[k])

\* C10: every stitched record carries the MJD of the day of the flux-feed
\* row its F10, F10B and AP values were read from; consecutive stitched
\* records are one day apart.
C10_StitchedMJD ==
    (StitcherFinished /\ error = NoError /\ hist_present /\ proxy_present)
        => /\ \A i \in Stitched : array[1][i] = 10 * RecordDay(i)
           /\ \A i \in Stitched :
                 (i + 1) \in Stitched => array[1][i + 1] = array[1][i] + 10

====
